---- MODULE Spec2Model ----
(***************************************************************************)
(* Route-to-asset resolution of react-pwa                                  *)
(* (packages/core/src/utils/asset-extract.ts).                             *)
(*                                                                         *)
(* JavaScript strings are modelled as sequences of one-character strings,  *)
(* so that indexOf, startsWith, endsWith, join and replace are computed    *)
(* character by character.  A JavaScript value of type string | number is  *)
(* a record [t |-> "string" | "number", v |-> <characters>]; a number is   *)
(* written with its decimal digits, so 5 and "5" differ in t only, which   *)
(* is what === tests.  An optional field of a chunk or a route is present  *)
(* exactly when its name is in the record's `has` set.                     *)
(***************************************************************************)
EXTENDS Integers, Sequences, FiniteSets, TLC

(***************************************************************************)
(* String primitives                                                       *)
(***************************************************************************)

\* String.prototype.startsWith
StartsWith(s, p) ==
  /\ Len(p) <= Len(s)
  /\ SubSeq(s, 1, Len(p)) = p

\* String.prototype.endsWith
EndsWith(s, p) ==
  /\ Len(p) <= Len(s)
  /\ SubSeq(s, Len(s) - Len(p) + 1, Len(s)) = p

\* String.prototype.indexOf: the first 0-based position of p in s, or -1
IndexOf(s, p) ==
  LET hits == { i \in 0..(Len(s) - Len(p)) : SubSeq(s, i + 1, i + Len(p)) = p }
  IN IF hits = {} THEN -1
     ELSE CHOOSE i \in hits : \A j \in hits : i <= j

\* Array.prototype.join
RECURSIVE Join(_, _)
Join(parts, sep) ==
  IF parts = <<>> THEN <<>>
  ELSE IF Len(parts) = 1 THEN parts[1]
  ELSE parts[1] \o sep \o Join(Tail(parts), sep)

\* Array.prototype.flat (one level)
RECURSIVE Flat(_)
Flat(lists) ==
  IF lists = <<>> THEN <<>> ELSE lists[1] \o Flat(Tail(lists))

\* [...new Set(list)]: the distinct elements in order of first occurrence
RECURSIVE Dedupe(_)
Dedupe(list) ==
  IF list = <<>> THEN <<>>
  ELSE LET front == Dedupe(SubSeq(list, 1, Len(list) - 1))
           last == list[Len(list)]
       IN IF \E i \in 1..Len(front) : front[i] = last
          THEN front
          ELSE Append(front, last)

Range(list) == { list[i] : i \in 1..Len(list) }

\* Sequences over S of length at most n
SeqsUpTo(S, n) == UNION { [1..k -> S] : k \in 0..n }

\* Array.prototype.map(f) is written [i \in 1..Len(list) |-> f(list[i])]

(***************************************************************************)
(* JavaScript values                                                       *)
(***************************************************************************)

Str(chars) == [t |-> "string", v |-> chars]
Num(digits) == [t |-> "number", v |-> digits]
Null == [t |-> "null", v |-> <<>>]

\* Boolean(x): null, undefined, "" and 0 are falsy
Truthy(x) ==
  CASE x.t = "null" -> FALSE
    [] x.t = "number" -> x.v # <<"0">>
    [] OTHER -> x.v # <<>>

(***************************************************************************)
(* hasExtension (asset-extract.ts:83-91)                                   *)
(***************************************************************************)

Lower ==
  {"a","b","c","d","e","f","g","h","i","j","k","l","m",
   "n","o","p","q","r","s","t","u","v","w","x","y","z"}
Digit == {"0","1","2","3","4","5","6","7","8","9"}
\* the characters of a URL scheme: /^[a-z0-9.+-]+:/i
ProtoChar == Lower \cup Digit \cup {".", "+", "-"}

\* the part of s before the first character of `stops`
CutAt(s, stops) ==
  LET hits == { i \in 1..Len(s) : s[i] \in stops }
  IN IF hits = {} THEN s
     ELSE SubSeq(s, 1, (CHOOSE i \in hits : \A j \in hits : i <= j) - 1)

\* url.parse(url).pathname of node:url, for URLs without whitespace,
\* backslash or user info: the hash and the query are cut, then a scheme,
\* and after "scheme://" the host.  <<>> stands for a null pathname.
Pathname(url) ==
  LET rest == CutAt(url, {"#", "?"})
      proto == CutAt(rest, {":"})
      hasProto == /\ Len(proto) < Len(rest)
                  /\ Len(proto) > 0
                  /\ \A i \in 1..Len(proto) : proto[i] \in ProtoChar
      afterProto == SubSeq(rest, Len(proto) + 2, Len(rest))
      afterSlashes == SubSeq(afterProto, 3, Len(afterProto))
      host == CutAt(afterSlashes, {"/"})
      path == SubSeq(afterSlashes, Len(host) + 1, Len(afterSlashes))
  IN IF ~hasProto THEN rest
     ELSE IF StartsWith(afterProto, <<"/", "/">>)
          THEN (IF path = <<>> THEN <<"/">> ELSE path)
          ELSE afterProto

HasExtension(url, ext) ==
  /\ Pathname(url) # <<>>
  /\ EndsWith(Pathname(url), ext)

(***************************************************************************)
(* filesFromChunks (asset-extract.ts:93-103)                               *)
(***************************************************************************)

\* chunk.files ?? []
FilesOf(chunk) == IF "files" \in chunk.has THEN chunk.files ELSE <<>>

\* idChunk.children ?? []
ChildrenOf(chunk) == IF "children" \in chunk.has THEN chunk.children ELSE <<>>

\* list.filter((file) => hasExtension(file, ext))
RECURSIVE FilterExt(_, _)
FilterExt(files, ext) ==
  IF files = <<>> THEN <<>>
  ELSE IF HasExtension(files[1], ext)
       THEN <<files[1]>> \o FilterExt(Tail(files), ext)
       ELSE FilterExt(Tail(files), ext)

RECURSIVE FilesFromChunks(_, _)
FilesFromChunks(chunks, ext) ==
  IF chunks = <<>> THEN <<>>
  ELSE FilterExt(FilesOf(chunks[1]), ext) \o FilesFromChunks(Tail(chunks), ext)

(***************************************************************************)
(* prependForwardSlash (asset-extract.ts:132-137)                          *)
(***************************************************************************)

HTTP == <<"h", "t", "t", "p">>

\* the mutation of PrependForwardSlash: a '/' is prepended to every path
PrependAlways(file) == <<"/">> \o file

PrependForwardSlash(file) ==
  IF StartsWith(file, HTTP) THEN file
  ELSE IF StartsWith(file, <<"/">>) THEN file
  ELSE <<"/">> \o file

(***************************************************************************)
(* extractChunksMap (asset-extract.ts:33-81)                               *)
(*                                                                         *)
(* Raw statistics: [has, main, chunks]; a raw chunk is                     *)
(* [has, id, files, children, modules], a module is the sequence of its    *)
(* reasons, a reason is [userRequest, moduleId] (JavaScript values).       *)
(***************************************************************************)

SEP == <<"|", "|">>

\* (asset?.modules ?? []).map((mod) => (mod?.reasons ?? []).map(...)).flat()
AllReasons(asset) == IF "modules" \in asset.has THEN Flat(asset.modules) ELSE <<>>

\* the mutation of FilterTruthy: no value is filtered out
FilterNone(vals) == vals

\* .filter(Boolean)
RECURSIVE FilterTruthy(_)
FilterTruthy(vals) ==
  IF vals = <<>> THEN <<>>
  ELSE IF Truthy(vals[1])
       THEN <<vals[1]>> \o FilterTruthy(Tail(vals))
       ELSE FilterTruthy(Tail(vals))

\* .filter((r) => typeof r === 'string'), keeping the characters
RECURSIVE FilterString(_)
FilterString(vals) ==
  IF vals = <<>> THEN <<>>
  ELSE IF vals[1].t = "string"
       THEN <<vals[1].v>> \o FilterString(Tail(vals))
       ELSE FilterString(Tail(vals))

ReasonsOf(asset) ==
  LET rs == AllReasons(asset)
  IN FilterString(Dedupe(FilterTruthy([i \in 1..Len(rs) |-> rs[i].userRequest])))

ReasonModulesOf(asset) ==
  LET rs == AllReasons(asset)
  IN Dedupe(FilterTruthy([i \in 1..Len(rs) |-> rs[i].moduleId]))

ExtractChunk(asset) ==
  [ has |-> (asset.has \cap {"id", "files", "children"})
              \cup {"reasons", "reasonModules", "reasonsStr"},
    id |-> asset.id,
    files |-> asset.files,
    children |-> asset.children,
    reasons |-> ReasonsOf(asset),
    reasonModules |-> ReasonModulesOf(asset),
    reasonsStr |-> Join(ReasonsOf(asset), SEP) ]

\* webpackStats?.toJson?.() ?? {} is a record with an empty `has`
NoStats == [has |-> {}, main |-> <<>>, chunks |-> <<>>]

ExtractChunksMap(stats) ==
  LET raw == IF "chunks" \in stats.has THEN stats.chunks ELSE <<>>
  IN [ main |-> IF "assetsByChunkName" \in stats.has THEN stats.main ELSE <<>>,
       chunks |-> [i \in 1..Len(raw) |-> ExtractChunk(raw[i])] ]

(***************************************************************************)
(* extractFiles (asset-extract.ts:140-250)                                 *)
(*                                                                         *)
(* A ChunksMap is [main, chunks]: main is assetsByChunkName?.main ?? [],   *)
(* a chunk is [has, id, files, children, reasons, reasonModules,           *)
(* reasonsStr].  A matched route is [has, module, webpack].                *)
(***************************************************************************)

CURRENT_PROJECT ==
  <<"@","c","u","r","r","e","n","t","P","r","o","j","e","c","t">>
REACTPWA == <<"@","r","e","a","c","t","p","w","a">>

\* chunk?.reasonsStr?.indexOf?.(needle) !== -1: undefined !== -1 when the
\* field is absent
ReasonsStrHas(chunk, needle) ==
  IF "reasonsStr" \in chunk.has
  THEN IndexOf(chunk.reasonsStr, needle) # -1
  ELSE TRUE

\* the filter of lines 168-175
IsCurrentProjectChunk(chunk) ==
  \/ ReasonsStrHas(chunk, CURRENT_PROJECT)
  \/ ReasonsStrHas(chunk, REACTPWA)
  \/ ("reasonsStr" \in chunk.has /\ chunk.reasonsStr = <<>>)

\* the filter of lines 212-215
IsModuleChunk(chunk, module) == ReasonsStrHas(chunk, SEP \o module \o SEP)

\* the filter of line 229: chunk?.reasonModules?.indexOf?.(webpackId) !== -1
IsReasonModuleChunk(chunk, webpackId) ==
  IF "reasonModules" \in chunk.has
  THEN \E i \in 1..Len(chunk.reasonModules) : chunk.reasonModules[i] = webpackId
  ELSE TRUE

\* the mutation of MainBatches: the main group is skipped
MainBatchesSkipped(chunksMap, ext) == <<>>

\* lines 155-165: the files of assetsByChunkName.main, one batch
MainBatches(chunksMap, ext) ==
  IF FilterExt(chunksMap.main, ext) # <<>>
  THEN << FilterExt(chunksMap.main, ext) >>
  ELSE <<>>

RECURSIVE CurrentProjectChunks(_)
CurrentProjectChunks(chunks) ==
  IF chunks = <<>> THEN <<>>
  ELSE IF IsCurrentProjectChunk(chunks[1])
       THEN <<chunks[1]>> \o CurrentProjectChunks(Tail(chunks))
       ELSE CurrentProjectChunks(Tail(chunks))

\* lines 167-185: the files of the core chunks, one batch
CoreBatches(chunksMap, ext) ==
  IF FilesFromChunks(CurrentProjectChunks(chunksMap.chunks), ext) # <<>>
  THEN << FilesFromChunks(CurrentProjectChunks(chunksMap.chunks), ext) >>
  ELSE <<>>

\* matchedRoute?.route?.module, truthy
HasModule(matchedRoute) ==
  "module" \in matchedRoute.has /\ matchedRoute.module # <<>>

\* webpackId && typeof webpackId === 'number'
HasNumericId(matchedRoute) ==
  /\ "webpack" \in matchedRoute.has
  /\ matchedRoute.webpack.t = "number"
  /\ Truthy(matchedRoute.webpack)

\* webpackId && typeof webpackId === 'string'
HasStringId(matchedRoute) ==
  /\ "webpack" \in matchedRoute.has
  /\ matchedRoute.webpack.t = "string"
  /\ Truthy(matchedRoute.webpack)

\* lines 210-222: one batch per chunk the module name selects
RECURSIVE ModuleBatches(_, _, _)
ModuleBatches(chunks, module, ext) ==
  IF chunks = <<>> THEN <<>>
  ELSE IF IsModuleChunk(chunks[1], module)
       THEN << FilesFromChunks(<<chunks[1]>>, ext) >>
              \o ModuleBatches(Tail(chunks), module, ext)
       ELSE ModuleBatches(Tail(chunks), module, ext)

\* lines 225-237: one batch per chunk the numeric id selects
RECURSIVE NumericBatches(_, _, _)
NumericBatches(chunks, webpackId, ext) ==
  IF chunks = <<>> THEN <<>>
  ELSE IF IsReasonModuleChunk(chunks[1], webpackId)
       THEN << FilesFromChunks(<<chunks[1]>>, ext) >>
              \o NumericBatches(Tail(chunks), webpackId, ext)
       ELSE NumericBatches(Tail(chunks), webpackId, ext)

\* .replace(/[./]/gi, '_')
ReplaceDotSlash(s) ==
  [i \in 1..Len(s) |-> IF s[i] \in {".", "/"} THEN "_" ELSE s[i]]

\* .replace(/^_+|_+$/g, '')
RECURSIVE TrimUnderscores(_)
TrimUnderscores(s) ==
  IF s = <<>> THEN s
  ELSE IF s[1] = "_" THEN TrimUnderscores(Tail(s))
  ELSE IF s[Len(s)] = "_" THEN TrimUnderscores(SubSeq(s, 1, Len(s) - 1))
  ELSE s

\* line 240
Canonical(webpackId) == Str(TrimUnderscores(ReplaceDotSlash(webpackId.v)))

\* lines 210-237 of the loop body: the module-name batches, then the
\* numeric-id batches of one matched route
RouteBatches(matchedRoute, chunksMap, ext) ==
  (IF HasModule(matchedRoute)
   THEN ModuleBatches(chunksMap.chunks, matchedRoute.module, ext)
   ELSE <<>>)
  \o
  (IF HasNumericId(matchedRoute)
   THEN NumericBatches(chunksMap.chunks, matchedRoute.webpack, ext)
   ELSE <<>>)

(***************************************************************************)
(* addById (asset-extract.ts:105-130)                                      *)
(***************************************************************************)

\* mutant: the visited-id guard of line 112 is missing
NeverExtracted(webpackId, extractedAssets) == FALSE

\* line 112: extractedAssets.has(webpackId)
AlreadyExtracted(webpackId, extractedAssets) == webpackId \in extractedAssets

\* the mutation of FindChunk: ids are compared with == , so that the string
\* '9' finds the chunk whose id is the number 9
FindChunkLoose(chunks, webpackId) ==
  LET hits == { i \in 1..Len(chunks) :
                  "id" \in chunks[i].has /\ chunks[i].id.v = webpackId.v }
  IN IF hits = {} THEN 0
     ELSE CHOOSE i \in hits : \A j \in hits : i <= j

\* mutant: the lookup also accepts a chunk that lists webpackId as its child
FindChunkOrParent(chunks, webpackId) ==
  LET hits == { i \in 1..Len(chunks) :
                  \/ "id" \in chunks[i].has /\ chunks[i].id = webpackId
                  \/ \E k \in 1..Len(ChildrenOf(chunks[i])) :
                       ChildrenOf(chunks[i])[k] = webpackId }
  IN IF hits = {} THEN 0
     ELSE CHOOSE i \in hits : \A j \in hits : i <= j

\* line 116: the index of the first chunk with chunk.id === webpackId, or 0
FindChunk(chunks, webpackId) ==
  LET hits == { i \in 1..Len(chunks) :
                  "id" \in chunks[i].has /\ chunks[i].id = webpackId }
  IN IF hits = {} THEN 0
     ELSE CHOOSE i \in hits : \A j \in hits : i <= j

\* mutant: the comparison of line 125 is inverted
DescendsIntoSelfOnly(childId, webpackId) == childId = webpackId

\* line 125: childId !== webpackId
DescendsInto(childId, webpackId) == childId # webpackId

RECURSIVE AddById(_, _, _, _, _)
RECURSIVE AddChildren(_, _, _, _, _, _)
\* the result is the pair of the two collections the code mutates
AddById(webpackId, chunksMap, positionedFiles, ext, extractedAssets) ==
  IF AlreadyExtracted(webpackId, extractedAssets)
  THEN [positionedFiles |-> positionedFiles, extractedAssets |-> extractedAssets]
  ELSE LET k == FindChunk(chunksMap.chunks, webpackId)
           seen == extractedAssets \cup {webpackId}
       IN IF k = 0
          THEN [positionedFiles |-> positionedFiles, extractedAssets |-> seen]
          ELSE AddChildren(ChildrenOf(chunksMap.chunks[k]), webpackId, chunksMap,
                           Append(positionedFiles,
                                  FilesFromChunks(<<chunksMap.chunks[k]>>, ext)),
                           ext, seen)

\* lines 124-128: the forEach over idChunk.children
AddChildren(children, webpackId, chunksMap, positionedFiles, ext, extractedAssets) ==
  IF children = <<>>
  THEN [positionedFiles |-> positionedFiles, extractedAssets |-> extractedAssets]
  ELSE LET r == IF DescendsInto(children[1], webpackId)
                THEN AddById(children[1], chunksMap, positionedFiles, ext,
                             extractedAssets)
                ELSE [positionedFiles |-> positionedFiles,
                      extractedAssets |-> extractedAssets]
       IN AddChildren(Tail(children), webpackId, chunksMap, r.positionedFiles,
                      ext, r.extractedAssets)

(***************************************************************************)
(* extractFiles, the whole call                                            *)
(***************************************************************************)

\* lines 207-245: one pass of matchedRoutes.forEach
RouteBody(matchedRoute, chunksMap, positionedFiles, ext, extractedAssets) ==
  LET pushed == positionedFiles \o RouteBatches(matchedRoute, chunksMap, ext)
  IN IF HasStringId(matchedRoute)
     THEN AddById(Canonical(matchedRoute.webpack), chunksMap, pushed, ext,
                  extractedAssets)
     ELSE [positionedFiles |-> pushed, extractedAssets |-> extractedAssets]

RECURSIVE RouteLoop(_, _, _, _, _)
RouteLoop(matchedRoutes, chunksMap, positionedFiles, ext, extractedAssets) ==
  IF matchedRoutes = <<>>
  THEN [positionedFiles |-> positionedFiles, extractedAssets |-> extractedAssets]
  ELSE LET r == RouteBody(matchedRoutes[1], chunksMap, positionedFiles, ext,
                          extractedAssets)
       IN RouteLoop(Tail(matchedRoutes), chunksMap, r.positionedFiles, ext,
                    r.extractedAssets)

\* mutant: the core batch is pushed before the main batch
CollectedCoreFirst(matchedRoutes, chunksMap, ext) ==
  RouteLoop(matchedRoutes, chunksMap,
            CoreBatches(chunksMap, ext) \o MainBatches(chunksMap, ext),
            ext, {})

\* lines 149-245: positionedFiles and extractedAssets when the loop has ended
Collected(matchedRoutes, chunksMap, ext) ==
  RouteLoop(matchedRoutes, chunksMap,
            MainBatches(chunksMap, ext) \o CoreBatches(chunksMap, ext),
            ext, {})

PositionedFiles(matchedRoutes, chunksMap, ext) ==
  Collected(matchedRoutes, chunksMap, ext).positionedFiles

\* line 247: [...new Set(positionedFiles.map((p) => p.files).flat())]
DistinctFiles(positionedFiles) == Dedupe(Flat(positionedFiles))

\* lines 247-249: the returned list
Normalized(files) == [i \in 1..Len(files) |-> PrependForwardSlash(files[i])]

ExtractFiles(matchedRoutes, chunksMap, ext) ==
  Normalized(DistinctFiles(PositionedFiles(matchedRoutes, chunksMap, ext)))

CSS == <<".", "c", "s", "s">>
JS == <<".", "j", "s">>

\* lines 265-268
ExtractStyles(matchedRoutes, chunksMap) == ExtractFiles(matchedRoutes, chunksMap, CSS)

\* lines 294-297
ExtractScripts(matchedRoutes, chunksMap) == ExtractFiles(matchedRoutes, chunksMap, JS)

(***************************************************************************)
(* State                                                                   *)
(***************************************************************************)

VARIABLES
  stats,            \* the compiler statistics the ChunksMap was built from
  origin,           \* "build": chunksMap = extractChunksMap(stats); "file": a
                    \* chunks-map.json of any content (fastify-server.tsx:15-28)
  chunksMap,        \* webChunksMap, immutable while the server runs
  matchedRoutes,    \* the arguments of the current extractFiles call
  ext,
  pc,               \* "idle" | "loop" (inside matchedRoutes.forEach) | "done"
  routeIdx,         \* the next matched route of the forEach
  stack,            \* the addById frames, innermost last
  positionedFiles,  \* the batches pushed so far
  extractedAssets,  \* the visited ids
  processed,        \* history: the chunk index of every push of line 118
  steps,            \* history: the steps taken by the current call
  out,              \* the returned list
  disk,             \* the css files under the build directory: path -> content
  cssContentMap,    \* the process-wide cache of asset-extract.ts:252
  req,              \* the extractStylesWithContent call of every request
  thread,           \* the request whose code holds the thread, 0 when none
  queue,            \* the promise jobs waiting for the thread, oldest first
  reads,            \* history: the disk reads begun, per path
  writes,           \* history: the cssContentMap.set calls made, per path
  fn,               \* the pure function applied last, "none" before any
  arg,              \* the string it is applied to
  res               \* what it returned

resolverVars ==
  <<matchedRoutes, ext, pc, routeIdx, stack, positionedFiles, extractedAssets,
    processed, steps, out>>

fetcherVars == <<disk, cssContentMap, req, thread, queue, reads, writes>>

pureVars == <<fn, arg, res>>

vars == <<stats, origin, chunksMap, resolverVars, fetcherVars, pureVars>>

(***************************************************************************)
(* Inputs                                                                  *)
(***************************************************************************)

MaxFiles == 1
MaxReasons == 3
MaxRoutes == 2

a_css == <<"a", ".", "c", "s", "s">>
slash_a_css == <<"/", "a", ".", "c", "s", "s">>
b_css == <<"b", ".", "c", "s", "s">>
c_js == <<"c", ".", "j", "s">>
d_css == <<"d", ".", "c", "s", "s">>
FileU == {a_css, slash_a_css, b_css, c_js}
FileLists == SeqsUpTo(FileU, MaxFiles)

Header == <<"H">>
HeaderX == <<"H", "X">>
Footer == <<"F">>
Other == <<"x">>

Route(has, module, webpack) == [has |-> has, module |-> module, webpack |-> webpack]
RouteU ==
  { Route({}, <<>>, Null),
    Route({"module"}, Header, Null),
    Route({"module"}, HeaderX, Null),
    Route({"webpack"}, <<>>, Num(<<"1">>)),
    Route({"webpack"}, <<>>, Num(<<"0">>)),
    Route({"webpack"}, <<>>, Str(<<"9">>)),
    Route({"webpack"}, <<>>, Str(<<"a", ".", "b">>)),
    Route({"module", "webpack"}, Header, Str(<<"a", ".", "b">>)) }
RouteLists == SeqsUpTo(RouteU, MaxRoutes)
ExtU == {CSS, JS}

Reason(userRequest, moduleId) == [userRequest |-> userRequest, moduleId |-> moduleId]
ReasonU ==
  { Reason(Str(Header), Num(<<"1">>)),
    Reason(Str(HeaderX), Num(<<"2">>)),
    Reason(Str(Footer), Num(<<"0">>)),
    Reason(Null, Str(<<"m">>)) }

RawChunk(has, id, files, children, modules) ==
  [has |-> has, id |-> id, files |-> files, children |-> children,
   modules |-> modules]

Chunk(has, id, files, children, reasons, reasonModules, reasonsStr) ==
  [has |-> has, id |-> id, files |-> files, children |-> children,
   reasons |-> reasons, reasonModules |-> reasonModules,
   reasonsStr |-> reasonsStr]

AllFields == {"id", "files", "children", "reasons", "reasonModules", "reasonsStr"}

\* Statistics of a build: a chunk "a_b" with any reasons, alone or with a
\* second chunk that it has as its child.
StatsU ==
  { [has |-> {"chunks", "assetsByChunkName"}, main |-> <<c_js>>,
     chunks |-> <<RawChunk({"id", "files", "children", "modules"},
                           Str(<<"a", "_", "b">>), <<a_css>>, tail.kids, <<rs>>)>>
                 \o tail.more] :
      rs \in SeqsUpTo(ReasonU, MaxReasons),
      tail \in { [kids |-> <<>>, more |-> <<>>],
                 [kids |-> <<Num(<<"7">>)>>,
                  more |-> <<RawChunk({"id", "files", "modules"}, Num(<<"7">>),
                                      <<b_css>>, <<>>,
                                      <<<<Reason(Str(HeaderX), Num(<<"1">>))>>>>)>>] } }

\* Hand-written maps: a main list, a chunk with no owner, a chunk owned by
\* the module Header, a chunk that the route id "a.b" names and its child.
\* The main list and the files of the first chunk vary, the first chunk may
\* lack its optional fields and the last one its reasonModules.
WrittenMaps ==
  { [main |-> m,
     chunks |->
       << Chunk(has1, Num(<<"1">>), f1, <<>>, <<>>, <<>>, <<>>),
          Chunk(AllFields, Num(<<"7">>), <<b_css>>, <<>>,
                <<Other, Header, Footer>>, <<Num(<<"2">>), Num(<<"0">>)>>,
                Join(<<Other, Header, Footer>>, SEP)),
          Chunk(AllFields, Str(<<"a", "_", "b">>), <<a_css, c_js>>,
                <<Num(<<"9">>)>>, <<Other>>, <<Num(<<"1">>)>>, Other),
          Chunk(has9, Num(<<"9">>), <<d_css>>, <<>>,
                <<Other>>, <<>>, Other) >>] :
      m \in FileLists, f1 \in FileLists,
      has1 \in {AllFields, {"id", "files"}},
      has9 \in {AllFields, AllFields \ {"reasonModules"}} }

main_js == <<"m", "a", "i", "n", ".", "j", "s">>
main_css == <<"m", "a", "i", "n", ".", "c", "s", "s">>

\* Scenario A: the one chunk {id: 1, names: ['main'], files: ['main.js',
\* 'main.css']} and assetsByChunkName {main: ['main.js', 'main.css']}
ScenarioA ==
  [main |-> <<main_js, main_css>>,
   chunks |-> << Chunk({"id", "files"}, Num(<<"1">>), <<main_js, main_css>>,
                       <<>>, <<>>, <<>>, <<>>) >>]

(***************************************************************************)
(* The state of the style content fetcher before any request               *)
(***************************************************************************)

MaxRequests == 2

Requests == 1..MaxRequests

\* the css paths the fetcher is asked for, as extractStyles returns them
PathU == {PrependForwardSlash(a_css), PrependForwardSlash(b_css)}

\* what a file holds: two versions of its text, or no file at that path
ContentU == {"v1", "v2"}

NoFile == "ENOENT"

\* Map.prototype.get of a key the map does not hold
Undefined == "undefined"

EmptyCache == [p \in PathU |-> Undefined]

\* a request that has not called extractStylesWithContent yet
NewRequest ==
  [pc |-> "new", routes |-> <<>>, cssFiles |-> <<>>, i |-> 1, tasks |-> <<>>]

IdleFetcher ==
  /\ disk = [p \in PathU |-> NoFile]
  /\ cssContentMap = EmptyCache
  /\ req = [r \in Requests |-> NewRequest]
  /\ thread = 0
  /\ queue = <<>>
  /\ reads = [p \in PathU |-> 0]
  /\ writes = [p \in PathU |-> 0]

\* no pure function has been applied
IdlePure ==
  /\ fn = "none"
  /\ arg = <<>>
  /\ res = <<>>

(***************************************************************************)
(* The resolver as one step: a request calls extractFiles                  *)
(***************************************************************************)

IdleResolver ==
  /\ matchedRoutes = <<>>
  /\ ext = CSS
  /\ pc = "idle"
  /\ routeIdx = 1
  /\ stack = <<>>
  /\ positionedFiles = <<>>
  /\ extractedAssets = {}
  /\ processed = <<>>
  /\ steps = 0
  /\ out = <<>>

\* the server has loaded the map the build wrote (build.ts:85-132,
\* fastify-server.tsx:15-28)
Init ==
  /\ stats \in StatsU \cup {NoStats}
  /\ origin = "build"
  /\ chunksMap = ExtractChunksMap(stats)
  /\ IdleResolver
  /\ IdleFetcher
  /\ IdlePure

\* the server has loaded a chunks-map.json of other content
InitFile ==
  /\ stats = NoStats
  /\ origin = "file"
  /\ chunksMap \in WrittenMaps \cup {ScenarioA}
  /\ IdleResolver
  /\ IdleFetcher
  /\ IdlePure

ExtractFilesCall(routes, e) ==
  /\ pc = "idle"
  /\ matchedRoutes' = routes
  /\ ext' = e
  /\ LET r == Collected(routes, chunksMap, e)
     IN /\ positionedFiles' = r.positionedFiles
        /\ extractedAssets' = r.extractedAssets
        /\ out' = Normalized(DistinctFiles(r.positionedFiles))
  /\ pc' = "done"
  /\ UNCHANGED <<pureVars, fetcherVars, stats, origin, chunksMap, routeIdx, stack, processed, steps>>

Next == \E routes \in RouteLists, e \in ExtU : ExtractFilesCall(routes, e)

Spec == Init /\ [][Next]_vars

SpecFile == InitFile /\ [][Next]_vars

(***************************************************************************)
(* The resolver step by step: one step per pass of matchedRoutes.forEach,  *)
(* per addById invocation and per return of an invocation.  A frame of the *)
(* stack is [id, rest]: the webpackId of the invocation and the children   *)
(* its forEach has not reached yet.                                        *)
(***************************************************************************)

\* lines 112-121 of an invocation addById(webpackId, ...), made with the
\* collections as they stand: the collections and the stack after it has
\* pushed its files (its forEach over the children is still to run)
Invoke(webpackId, stk, files, seen, log) ==
  LET k == FindChunk(chunksMap.chunks, webpackId)
  IN IF AlreadyExtracted(webpackId, seen)
     THEN [stack |-> stk, positionedFiles |-> files, extractedAssets |-> seen,
           processed |-> log]
     ELSE IF k = 0
     THEN [stack |-> stk, positionedFiles |-> files,
           extractedAssets |-> seen \cup {webpackId}, processed |-> log]
     ELSE [stack |-> Append(stk, [id |-> webpackId,
                                  rest |-> ChildrenOf(chunksMap.chunks[k])]),
           positionedFiles |->
             Append(files, FilesFromChunks(<<chunksMap.chunks[k]>>, ext)),
           extractedAssets |-> seen \cup {webpackId},
           processed |-> Append(log, k)]

\* lines 145-187: the main and the core batches
Begin(routes, e) ==
  /\ pc = "idle"
  /\ matchedRoutes' = routes
  /\ ext' = e
  /\ positionedFiles' = MainBatches(chunksMap, e) \o CoreBatches(chunksMap, e)
  /\ extractedAssets' = {}
  /\ routeIdx' = 1
  /\ pc' = "loop"
  /\ steps' = 1
  /\ UNCHANGED <<pureVars, fetcherVars, stats, origin, chunksMap, stack, processed, out>>

\* lines 207-244: the module and numeric groups of the next route, and the
\* call of addById for its string id
RouteStep ==
  /\ pc = "loop"
  /\ stack = <<>>
  /\ routeIdx <= Len(matchedRoutes)
  /\ LET matchedRoute == matchedRoutes[routeIdx]
         pushed == positionedFiles \o RouteBatches(matchedRoute, chunksMap, ext)
         r == IF HasStringId(matchedRoute)
              THEN Invoke(Canonical(matchedRoute.webpack), stack, pushed,
                          extractedAssets, processed)
              ELSE [stack |-> stack, positionedFiles |-> pushed,
                    extractedAssets |-> extractedAssets, processed |-> processed]
     IN /\ stack' = r.stack
        /\ positionedFiles' = r.positionedFiles
        /\ extractedAssets' = r.extractedAssets
        /\ processed' = r.processed
  /\ routeIdx' = routeIdx + 1
  /\ steps' = steps + 1
  /\ UNCHANGED <<pureVars, fetcherVars, stats, origin, chunksMap, matchedRoutes, ext, pc, out>>

\* lines 124-128: the innermost invocation's forEach reaches its next child
ChildStep ==
  /\ pc = "loop"
  /\ stack # <<>>
  /\ stack[Len(stack)].rest # <<>>
  /\ LET top == stack[Len(stack)]
         childId == top.rest[1]
         stk == [stack EXCEPT ![Len(stack)].rest = Tail(top.rest)]
         r == IF DescendsInto(childId, top.id)
              THEN Invoke(childId, stk, positionedFiles, extractedAssets,
                          processed)
              ELSE [stack |-> stk, positionedFiles |-> positionedFiles,
                    extractedAssets |-> extractedAssets, processed |-> processed]
     IN /\ stack' = r.stack
        /\ positionedFiles' = r.positionedFiles
        /\ extractedAssets' = r.extractedAssets
        /\ processed' = r.processed
  /\ steps' = steps + 1
  /\ UNCHANGED <<pureVars, fetcherVars, stats, origin, chunksMap, matchedRoutes, ext, pc, routeIdx, out>>

\* line 129-130: the innermost invocation has no child left and returns
ReturnStep ==
  /\ pc = "loop"
  /\ stack # <<>>
  /\ stack[Len(stack)].rest = <<>>
  /\ stack' = SubSeq(stack, 1, Len(stack) - 1)
  /\ steps' = steps + 1
  /\ UNCHANGED <<pureVars, fetcherVars, stats, origin, chunksMap, matchedRoutes, ext, pc, routeIdx,
                 positionedFiles, extractedAssets, processed, out>>

\* lines 246-249
Finish ==
  /\ pc = "loop"
  /\ stack = <<>>
  /\ routeIdx > Len(matchedRoutes)
  /\ out' = Normalized(DistinctFiles(positionedFiles))
  /\ pc' = "done"
  /\ steps' = steps + 1
  /\ UNCHANGED <<pureVars, fetcherVars, stats, origin, chunksMap, matchedRoutes, ext, routeIdx, stack,
                 positionedFiles, extractedAssets, processed>>

\* Chunk graphs: three chunks, the second with a numeric id; every chunk
\* lists up to MaxChildren children among the three ids and an id that names
\* no chunk.  All three have no owner (reasonsStr ""), or an owner, or no
\* reasonsStr at all.
MaxChildren == 2

GraphIds == << Str(<<"a", "_", "b">>), Num(<<"5">>), Str(<<"c">>) >>
GraphFiles == << <<a_css>>, <<c_js>>, <<b_css>> >>
ChildU == << Str(<<"a", "_", "b">>), Num(<<"5">>), Str(<<"c">>), Str(<<"z">>) >>

\* the children lists: the ids of ChildU at increasing positions
ChildLists ==
  { [i \in 1..Len(pos) |-> ChildU[pos[i]]] :
      pos \in { q \in SeqsUpTo(1..Len(ChildU), MaxChildren) :
                  \A i \in 1..(Len(q) - 1) : q[i] < q[i + 1] } }

GraphChunk(i, kids, owner) ==
  Chunk(IF owner = "absent" THEN {"id", "files", "children"} ELSE AllFields,
        GraphIds[i], GraphFiles[i], kids,
        IF owner = "owned" THEN <<Other>> ELSE <<>>,
        <<>>,
        IF owner = "owned" THEN Other ELSE <<>>)

GraphMaps ==
  { [main |-> <<>>,
     chunks |-> [i \in 1..3 |-> GraphChunk(i, kids[i], owner)]] :
      kids \in [1..3 -> ChildLists], owner \in {"none", "owned", "absent"} }

StartU ==
  { Route({"webpack"}, <<>>, Str(<<"a", ".", "b">>)),
    Route({"webpack"}, <<>>, Str(<<"5">>)),
    Route({"webpack"}, <<>>, Str(<<"/", "c", "/">>)) }
StartLists == SeqsUpTo(StartU, MaxRoutes)

\* Scenario C of the specification: {id: 5, children: [5], files: ["c.js"]}
ScenarioC ==
  [main |-> <<>>,
   chunks |-> << Chunk({"id", "files", "children"}, Num(<<"5">>), <<c_js>>,
                       <<Num(<<"5">>)>>, <<>>, <<>>, <<>>) >>]

InitTraverse ==
  /\ stats = NoStats
  /\ origin = "file"
  /\ chunksMap \in GraphMaps \cup {ScenarioC}
  /\ IdleResolver
  /\ IdleFetcher
  /\ IdlePure

NextTraverse ==
  \/ \E routes \in StartLists, e \in ExtU : Begin(routes, e)
  \/ RouteStep
  \/ ChildStep
  \/ ReturnStep
  \/ Finish

SpecTraverse == InitTraverse /\ [][NextTraverse]_vars

(***************************************************************************)
(* Definitions the claims are stated with                                  *)
(***************************************************************************)

NChunks == Len(chunksMap.chunks)
ChunkAt(i) == chunksMap.chunks[i]

\* the chunks that chunk i lists as its children
ChildIdx(i) ==
  { j \in 1..NChunks :
      /\ "id" \in ChunkAt(j).has
      /\ \E k \in 1..Len(ChildrenOf(ChunkAt(i))) :
           ChildrenOf(ChunkAt(i))[k] = ChunkAt(j).id }

\* the chunks reachable from the chunks of `set` through the children relation
RECURSIVE Closure(_)
Closure(set) ==
  LET more == set \cup UNION { ChildIdx(i) : i \in set }
  IN IF more = set THEN set ELSE Closure(more)

\* the chunk a string-id route starts from, as a set (empty when none)
StartOf(matchedRoute) ==
  IF HasStringId(matchedRoute)
  THEN { j \in 1..NChunks :
           "id" \in ChunkAt(j).has
           /\ ChunkAt(j).id = Canonical(matchedRoute.webpack) }
  ELSE {}

\* the chunks reachable from the start of some matched route
Descendants == Closure(UNION { StartOf(matchedRoutes[i]) : i \in 1..Len(matchedRoutes) })

\* the returned paths of chunk i: its extension-matching files, normalized
PathsOf(i) ==
  { PrependForwardSlash(f) : f \in Range(FilterExt(FilesOf(ChunkAt(i)), ext)) }

InOutput(i) == PathsOf(i) \subseteq Range(out)
NotInOutput(i) == PathsOf(i) \cap Range(out) = {}

\* chunk i is selected by the core, the module-name or the numeric-id group
SelectedByGroup(i) ==
  \/ IsCurrentProjectChunk(ChunkAt(i))
  \/ \E k \in 1..Len(matchedRoutes) :
       \/ HasModule(matchedRoutes[k])
          /\ IsModuleChunk(ChunkAt(i), matchedRoutes[k].module)
       \/ HasNumericId(matchedRoutes[k])
          /\ IsReasonModuleChunk(ChunkAt(i), matchedRoutes[k].webpack)

\* chunk b lists chunk a among its children and is not a descendant of a
ParentOnly(a, b) == a \in ChildIdx(b) /\ b \notin Closure({a})

HasNoOwner(i) == "reasonsStr" \in ChunkAt(i).has /\ ChunkAt(i).reasonsStr = <<>>

(***************************************************************************)
(* C2                                                                      *)
(***************************************************************************)

\* C2 as stated: after a call with one route whose string id canonicalizes
\* to the id of chunk A, where chunk B lists A in its children, B is not
\* reachable from A and both have reasonsStr "" (Scenario B), the output has
\* A's extension-matching files and none of B's.
C2_ParentExcluded ==
  (pc = "done" /\ Len(matchedRoutes) = 1) =>
    \A a \in StartOf(matchedRoutes[1]) : \A b \in 1..NChunks :
      (ParentOnly(a, b) /\ HasNoOwner(a) /\ HasNoOwner(b)) =>
        (InOutput(a) /\ NotInOutput(b))

\* C2 amended: the traversal flows from the starting id to children only.
\* After a call the output has the extension-matching files of the chunk A
\* every string-id route starts from; a chunk B that is the descendant of no
\* starting chunk is never visited by the traversal, and its files are in the
\* output only when the main list or a chunk selected by the core, module or
\* numeric group, or a visited chunk, lists them (in Scenario B reasonsStr ""
\* makes B a core chunk, so /b.css is returned).
C2_ChildrenOnly ==
  /\ Range(processed) \subseteq Descendants
  /\ pc = "done" =>
       /\ \A k \in 1..Len(matchedRoutes) :
            \A a \in StartOf(matchedRoutes[k]) : InOutput(a)
       /\ \A b \in 1..NChunks :
            (b \notin Descendants /\ ~SelectedByGroup(b)) =>
              \A p \in PathsOf(b) :
                p \in Range(out) =>
                  \/ p \in { PrependForwardSlash(f) :
                               f \in Range(FilterExt(chunksMap.main, ext)) }
                  \/ \E i \in 1..NChunks :
                       /\ i \in Descendants \/ SelectedByGroup(i)
                       /\ p \in PathsOf(i)

\* C2 witness: a call with one string-id route has returned the file of its
\* starting chunk A and not the file of an owned chunk B that lists A as its
\* child and is not reachable from A.
C2_Witness ==
  /\ pc = "done"
  /\ Len(matchedRoutes) = 1
  /\ \E a \in StartOf(matchedRoutes[1]) : \E b \in 1..NChunks :
       /\ ParentOnly(a, b)
       /\ ~SelectedByGroup(b)
       /\ PathsOf(a) # {} /\ InOutput(a)
       /\ PathsOf(b) # {} /\ NotInOutput(b)

(***************************************************************************)
(* C3                                                                      *)
(***************************************************************************)

\* the steps one visit of chunk i takes: one per child and the return
VisitSteps(i) == Len(ChildrenOf(ChunkAt(i))) + 1

RECURSIVE SumVisitSteps(_)
SumVisitSteps(set) ==
  IF set = {} THEN 0
  ELSE LET i == CHOOSE x \in set : TRUE
       IN VisitSteps(i) + SumVisitSteps(set \ {i})

Occurrences(list, x) == Cardinality({ i \in 1..Len(list) : list[i] = x })

\* C3: the recursive traversal terminates whatever the children relation
\* (self-links, longer cycles, children that name no chunk, several
\* string-id routes).  Every step of a call counts in `steps`; the
\* recursion is never deeper than the number of chunks visited, and the
\* steps taken never exceed the passes of the route loop plus one visit
\* (its children and its return) of each distinct chunk visited, so at most
\* 2 + |routes| + the visit steps of all chunks: no call runs for ever.  In
\* Scenario C the call for the string id "5" returns '/c.js' exactly once.
C3_Terminates ==
  /\ Len(stack) <= Cardinality(Range(processed))
  /\ steps <= (IF pc = "idle" THEN 0 ELSE 1) + (routeIdx - 1)
                + SumVisitSteps(Range(processed))
                + (IF pc = "done" THEN 1 ELSE 0)
  /\ steps <= 2 + Len(matchedRoutes) + SumVisitSteps(1..NChunks)
  /\ (pc = "done" /\ chunksMap = ScenarioC /\ ext = JS
        /\ matchedRoutes = <<Route({"webpack"}, <<>>, Str(<<"5">>))>>) =>
       Occurrences(out, <<"/">> \o c_js) = 1

\* C3 witness: a call has returned after visiting a chunk that lies on a
\* cycle through another chunk and a chunk that is its own child, of a map
\* in which some child names no chunk.
C3_Witness ==
  /\ pc = "done"
  /\ \E i \in Range(processed) : \E j \in ChildIdx(i) :
       j # i /\ i \in Closure({j})
  /\ \E i \in Range(processed) : i \in ChildIdx(i)
  /\ \E i \in Range(processed) : Cardinality(ChildIdx(i)) < Len(ChildrenOf(ChunkAt(i)))
  /\ Len(matchedRoutes) = 2

(***************************************************************************)
(* C4                                                                      *)
(***************************************************************************)

\* C4: within one call no chunk is processed twice, and when the call has
\* returned, every chunk reachable through the children relation from the
\* chunk a string-id route starts from (that chunk included) has been
\* processed once and has its extension-matching files in the output.
C4_Descendants ==
  /\ \A i, j \in 1..Len(processed) : i # j => processed[i] # processed[j]
  /\ pc = "done" =>
       \A i \in Descendants : i \in Range(processed) /\ InOutput(i)

\* C4 witness: a call with two routes that start from different chunks with
\* overlapping descendants has returned, every chunk processed once.
C4_Witness ==
  /\ pc = "done"
  /\ Len(matchedRoutes) = 2
  /\ \E a \in StartOf(matchedRoutes[1]) : \E b \in StartOf(matchedRoutes[2]) :
       /\ a # b
       /\ a \notin Closure({b}) /\ b \notin Closure({a})
       /\ Closure({a}) \cap Closure({b}) # {}
  /\ Range(processed) = Descendants
  /\ Len(processed) = Cardinality(Descendants)

(***************************************************************************)
(* C1                                                                      *)
(***************************************************************************)

\* C1: the list extractFiles returns contains each path at most once, also
\* when several groups or chunks contribute the same file and when a file
\* is listed both with and without a leading '/'.
C1_NoDuplicatePath ==
  pc = "done" => \A i, j \in 1..Len(out) : i # j => out[i] # out[j]

(***************************************************************************)
(* C5                                                                      *)
(***************************************************************************)

\* C5: for a ChunksMap produced by extractChunksMap, the module-name group
\* of a route with module M selects a chunk exactly when M is one of the
\* chunk's reasons, wherever M sits in the list, and never because a reason
\* is a longer string that contains M.
C5_WholeToken ==
  (pc = "done" /\ origin = "build") =>
    \A k \in 1..Len(matchedRoutes) : \A i \in 1..NChunks :
      HasModule(matchedRoutes[k]) =>
        (IsModuleChunk(ChunkAt(i), matchedRoutes[k].module)
           <=> matchedRoutes[k].module \in Range(ChunkAt(i).reasons))

(***************************************************************************)
(* C6                                                                      *)
(***************************************************************************)

\* the files of a sequence of batches
FilesIn(batches) == Range(Flat(batches))

\* the files the string-id group of a route contributes: those of the
\* descendants of its starting chunk
StringFiles(matchedRoute) ==
  UNION { Range(FilterExt(FilesOf(ChunkAt(i)), ext)) :
            i \in Closure(StartOf(matchedRoute)) }

ModuleFiles(matchedRoute) ==
  IF HasModule(matchedRoute)
  THEN FilesIn(ModuleBatches(chunksMap.chunks, matchedRoute.module, ext))
  ELSE {}

NumericFiles(matchedRoute) ==
  IF HasNumericId(matchedRoute)
  THEN FilesIn(NumericBatches(chunksMap.chunks, matchedRoute.webpack, ext))
  ELSE {}

\* the files of group g (0 main, 1 core, 2 module name, 3 numeric id,
\* 4 string id) that route k contributes; main and core belong to no route
GroupFiles(g, k) ==
  CASE g = 0 -> FilesIn(MainBatches(chunksMap, ext))
    [] g = 1 -> FilesIn(CoreBatches(chunksMap, ext))
    [] g = 2 -> ModuleFiles(matchedRoutes[k])
    [] g = 3 -> NumericFiles(matchedRoutes[k])
    [] OTHER -> StringFiles(matchedRoutes[k])

Least(set) == CHOOSE x \in set : \A y \in set : x <= y

\* the places <<group, route>> of a call; main and core have route 0
AllPlaces ==
  { pl \in (0..4) \X (0..Len(matchedRoutes)) : (pl[1] < 2) <=> (pl[2] = 0) }

\* the files contributed at every place
Contributions == [pl \in AllPlaces |-> GroupFiles(pl[1], pl[2])]

\* the order of the places, group-major (all routes of a group before the
\* next group) and route-major (all groups of a route before the next route)
GroupMajor(place) == place[1] * (Len(matchedRoutes) + 1) + place[2]
RouteMajor(place) == IF place[1] < 2 THEN place[1] ELSE 3 * place[2] + place[1]

\* the first place of file f in each order, -1 when no place contributes f
FirstGroupMajor(f, table) ==
  LET at == { GroupMajor(pl) : pl \in { q \in DOMAIN table : f \in table[q] } }
  IN IF at = {} THEN -1 ELSE Least(at)

FirstRouteMajor(f, table) ==
  LET at == { RouteMajor(pl) : pl \in { q \in DOMAIN table : f \in table[q] } }
  IN IF at = {} THEN -1 ELSE Least(at)

\* the distinct files in output order; out is their normalization
ReturnedFiles == DistinctFiles(positionedFiles)

\* C6 as stated: the output is ordered by the five groups, every path first
\* contributed by an earlier group before every path first contributed by a
\* later group, whatever the route, and by route order inside a group.
C6_GroupMajorOrder ==
  pc = "done" =>
    LET files == ReturnedFiles
        table == Contributions
        first == [i \in 1..Len(files) |-> FirstGroupMajor(files[i], table)]
    IN \A i, j \in 1..Len(files) : i < j => first[i] <= first[j]

\* C6 amended: the output is the normalization, position by position, of
\* the distinct contributed files ordered by first contribution, where the
\* main group comes first, the core group second, and then the matched
\* routes in the caller's order, each route contributing its module-name
\* matches, then its numeric-id matches, then its string-id chunk and
\* descendants: a later route's module matches follow an earlier route's
\* string-id files.
C6_RouteMajorOrder ==
  pc = "done" =>
    LET files == ReturnedFiles
        table == Contributions
        first == [i \in 1..Len(files) |-> FirstRouteMajor(files[i], table)]
    IN /\ out = [i \in 1..Len(files) |-> PrependForwardSlash(files[i])]
       /\ \A i \in 1..Len(files) : first[i] >= 0
       /\ \A pl \in DOMAIN table : table[pl] \subseteq Range(files)
       /\ \A i, j \in 1..Len(files) : i < j => first[i] <= first[j]

\* C6 witness: a call has returned files first contributed by the main
\* group, the core group and two different routes, the first route by its
\* string id and the second by its module name.
C6_Witness ==
  /\ pc = "done"
  /\ Len(matchedRoutes) = 2
  /\ LET table == Contributions
     IN \E f0, f1, f2, f3 \in Range(ReturnedFiles) :
          /\ FirstRouteMajor(f0, table) = 0
          /\ FirstRouteMajor(f1, table) = 1
          /\ FirstRouteMajor(f2, table) = RouteMajor(<<4, 1>>)
          /\ FirstRouteMajor(f3, table) = RouteMajor(<<2, 2>>)

(***************************************************************************)
(* The style content fetcher (lines 252-292).  Node runs the JavaScript of *)
(* all requests on one thread: a promise job runs to its end before the    *)
(* next one starts.  A request calls extractStylesWithContent from a job   *)
(* of its handler; the body of the call up to its await of Promise.all is  *)
(* one job, and so is the continuation of every `await getCssFileContent`. *)
(* getCssFileContent is declared async but its body is synchronous         *)
(* (existsSync, readFileSync): the thread is held from the start of the    *)
(* read to its end.                                                        *)
(***************************************************************************)

\* a map whose style list has one path, or two with the route of Header; the
\* chunk with no owner may repeat the main file under its other spelling
StyleMaps ==
  { [main |-> <<a_css>>,
     chunks |->
       << Chunk(AllFields, Num(<<"1">>), f1, <<>>, <<>>, <<>>, <<>>),
          Chunk(AllFields, Num(<<"7">>), <<b_css>>, <<>>,
                <<Other, Header, Footer>>, <<Num(<<"2">>)>>,
                Join(<<Other, Header, Footer>>, SEP)) >>] :
      f1 \in {<<>>, <<slash_a_css>>} }

StyleRoutes == { <<>>, <<Route({"module"}, Header, Null)>> }

\* the mutation of CacheHas: the check of line 277 never finds an entry
CacheNeverHas(p) == FALSE

\* the mutation of CacheHas: a path whose read is waiting to be stored counts
\* as cached
CacheHasOrInFlight(p) ==
  \/ cssContentMap[p] # Undefined
  \/ \E r \in Requests : \E k \in 1..Len(req[r].tasks) :
       req[r].cssFiles[k] = p /\ req[r].tasks[k].st = "awaiting"

\* line 277: cssContentMap.has(cssFile)
CacheHas(p) == cssContentMap[p] # Undefined

\* a callback of line 276: st is its progress, content the text it has read
\* or found cached, cached whether it returned from the cache; nth is
\* history: the number its read has among the reads of its path
NoTask == [st |-> "none", content |-> Undefined, cached |-> FALSE, nth |-> 0]

\* the mutation of GetCssFileContent: a missing file does not throw, the
\* initial '' of line 256 is returned
GetCssFileContentOrEmpty(p) ==
  [st |-> "awaiting",
   content |-> IF disk[p] # NoFile THEN disk[p] ELSE "",
   cached |-> FALSE, nth |-> reads[p]]

\* lines 254-263: the promise getCssFileContent returns, fulfilled with the
\* text of the file or rejected with 'CSS file not found!'; its callback is
\* then waiting at the await of line 283
GetCssFileContent(p) ==
  IF disk[p] # NoFile
  THEN [st |-> "awaiting", content |-> disk[p], cached |-> FALSE, nth |-> reads[p]]
  ELSE [st |-> "rejecting", content |-> Undefined, cached |-> FALSE, nth |-> reads[p]]

\* the promise the callback of line 276 returned for every path settled
\* with a value
AllFulfilled(tasks) == \A k \in 1..Len(tasks) : tasks[k].st = "fulfilled"

CallJob(r) == [kind |-> "call", r |-> r, i |-> 0]

ResumeJob(r, i) == [kind |-> "resume", r |-> r, i |-> i]

InitStyles ==
  /\ stats = NoStats
  /\ origin = "file"
  /\ chunksMap \in StyleMaps
  /\ IdleResolver
  /\ IdlePure
  /\ disk \in [PathU -> ContentU \cup {NoFile}]
  /\ cssContentMap = EmptyCache
  /\ req = [r \in Requests |-> NewRequest]
  /\ thread = 0
  /\ queue = <<>>
  /\ reads = [p \in PathU |-> 0]
  /\ writes = [p \in PathU |-> 0]

\* a request's handler reaches its call of extractStylesWithContent: the
\* job that makes the call joins the queue (whoever holds the thread)
Arrive(r, routes) ==
  /\ req[r].pc = "new"
  /\ req' = [req EXCEPT ![r] = [@ EXCEPT !.pc = "queued", !.routes = routes]]
  /\ queue' = Append(queue, CallJob(r))
  /\ UNCHANGED <<pureVars, stats, origin, chunksMap, resolverVars, disk, cssContentMap,
                 thread, reads, writes>>

\* lines 270-275: the call starts; extractStyles resolves the style list and
\* cssFiles.map is about to call its callback for the first path
Call(r) ==
  /\ thread = 0
  /\ queue # <<>>
  /\ Head(queue) = CallJob(r)
  /\ LET cssFiles == ExtractStyles(req[r].routes, chunksMap)
     IN req' = [req EXCEPT ![r] =
                  [@ EXCEPT !.pc = "map", !.cssFiles = cssFiles, !.i = 1,
                            !.tasks = [k \in 1..Len(cssFiles) |-> NoTask]]]
  /\ queue' = Tail(queue)
  /\ thread' = r
  /\ UNCHANGED <<pureVars, stats, origin, chunksMap, resolverVars, disk, cssContentMap,
                 reads, writes>>

\* lines 276-283: the callback for the next path; a hit returns the cached
\* content at once, a miss enters getCssFileContent and its synchronous read
MapStep(r) ==
  /\ thread = r
  /\ req[r].pc = "map"
  /\ req[r].i <= Len(req[r].cssFiles)
  /\ LET i == req[r].i
         p == req[r].cssFiles[i]
     IN IF CacheHas(p)
        THEN /\ req' = [req EXCEPT ![r] =
                          [@ EXCEPT !.i = i + 1,
                                    !.tasks[i] = [st |-> "fulfilled",
                                                  content |-> cssContentMap[p],
                                                  cached |-> TRUE, nth |-> 0]]]
             /\ UNCHANGED reads
        ELSE /\ req' = [req EXCEPT ![r] = [@ EXCEPT !.pc = "reading"]]
             /\ reads' = [reads EXCEPT ![p] = @ + 1]
  /\ UNCHANGED <<pureVars, stats, origin, chunksMap, resolverVars, disk, cssContentMap,
                 thread, queue, writes>>

\* lines 254-263: the read ends.  getCssFileContent returns a promise
\* fulfilled with the text, or rejected with 'CSS file not found!'; the
\* callback suspends at its await (line 283) and its continuation is queued
ReadEnd(r) ==
  /\ thread = r
  /\ req[r].pc = "reading"
  /\ LET i == req[r].i
         p == req[r].cssFiles[i]
         t == GetCssFileContent(p)
     IN /\ req' = [req EXCEPT ![r] =
                     [@ EXCEPT !.pc = "map", !.i = i + 1, !.tasks[i] = t]]
        /\ queue' = Append(queue, ResumeJob(r, i))
  /\ UNCHANGED <<pureVars, stats, origin, chunksMap, resolverVars, disk, cssContentMap,
                 thread, reads, writes>>

\* lines 273-291: map has returned; the call awaits Promise.all of the
\* callbacks' promises and gives up the thread.  With every promise already
\* fulfilled the call returns the list
MapEnd(r) ==
  /\ thread = r
  /\ req[r].pc = "map"
  /\ req[r].i > Len(req[r].cssFiles)
  /\ req' = [req EXCEPT ![r] =
               [@ EXCEPT !.pc = IF AllFulfilled(req[r].tasks)
                                THEN "returned" ELSE "awaiting"]]
  /\ thread' = 0
  /\ UNCHANGED <<pureVars, stats, origin, chunksMap, resolverVars, disk, cssContentMap,
                 queue, reads, writes>>

\* lines 283-289: the continuation of `await getCssFileContent(cssFile)`.
\* A fulfilled read is stored (line 284) and the callback returns its
\* {href, content}; a rejected one throws out of the callback, and
\* Promise.all rejects the call with the first rejection (lines 273-291 have
\* no try/catch).  The call returns when the last promise is fulfilled.
Resume(r, i) ==
  /\ thread = 0
  /\ queue # <<>>
  /\ Head(queue) = ResumeJob(r, i)
  /\ queue' = Tail(queue)
  /\ LET p == req[r].cssFiles[i]
         t == req[r].tasks[i]
     IN IF t.st = "awaiting"
        THEN /\ cssContentMap' = [cssContentMap EXCEPT ![p] = t.content]
             /\ writes' = [writes EXCEPT ![p] = @ + 1]
             /\ LET tasks == [req[r].tasks EXCEPT ![i].st = "fulfilled"]
                IN req' = [req EXCEPT ![r] =
                             [@ EXCEPT !.tasks = tasks,
                                       !.pc = IF @ = "awaiting" /\ AllFulfilled(tasks)
                                              THEN "returned" ELSE @]]
        ELSE /\ req' = [req EXCEPT ![r] =
                          [@ EXCEPT !.tasks[i].st = "rejected",
                                    !.pc = IF @ = "awaiting" THEN "failed" ELSE @]]
             /\ UNCHANGED <<cssContentMap, writes>>
  /\ UNCHANGED <<pureVars, stats, origin, chunksMap, resolverVars, disk, thread, reads>>

\* the build directory changes under the running server: a file is
\* rewritten, removed or created
DiskChange(p, c) ==
  /\ disk[p] # c
  /\ disk' = [disk EXCEPT ![p] = c]
  /\ UNCHANGED <<pureVars, stats, origin, chunksMap, resolverVars, cssContentMap, req,
                 thread, queue, reads, writes>>

NextStyles ==
  \/ \E r \in Requests, routes \in StyleRoutes : Arrive(r, routes)
  \/ \E r \in Requests : Call(r)
  \/ \E r \in Requests : MapStep(r)
  \/ \E r \in Requests : ReadEnd(r)
  \/ \E r \in Requests : MapEnd(r)
  \/ \E r \in Requests : \E i \in 1..Len(req[r].cssFiles) : Resume(r, i)
  \/ \E p \in PathU, c \in ContentU \cup {NoFile} : DiskChange(p, c)

SpecStyles == InitStyles /\ [][NextStyles]_vars

\* what a returned call hands to its caller: {href, content} per path
Result(r) ==
  [k \in 1..Len(req[r].cssFiles) |->
     [href |-> req[r].cssFiles[k], content |-> req[r].tasks[k].content]]

(***************************************************************************)
(* Claims about the style content fetcher                                  *)
(***************************************************************************)

\* the cache holds an entry for p
Stored(p) == cssContentMap[p] # Undefined

\* the callbacks of request r for path p
TasksOf(r, p) == {k \in 1..Len(req[r].tasks) : req[r].cssFiles[k] = p}

\* call r has read p from the disk and found the file
SuccessfullyReadBy(r, p) ==
  \E k \in TasksOf(r, p) :
    /\ req[r].tasks[k].st \in {"awaiting", "fulfilled"}
    /\ ~req[r].tasks[k].cached

\* C7: when the style list of a call has several paths and one of them has
\* no file on disk, the failure stays with that path and the call does not
\* fail as a whole.
C7_FailureConfined ==
  \A r \in Requests :
    (/\ Len(req[r].cssFiles) >= 2
     /\ \E k \in 1..Len(req[r].tasks) : req[r].tasks[k].st = "rejected")
    => req[r].pc # "failed"

\* C8 as stated: once a call has read p successfully, no other call begins
\* a read of p any more, and no other call replaces a stored entry for p.
C8_ReadOnceNeverReplaced ==
  [][\A p \in PathU : \A r \in Requests : \A r2 \in Requests \ {r} :
       SuccessfullyReadBy(r, p) =>
         /\ ~(/\ req[r2].pc = "map"
              /\ req'[r2].pc = "reading"
              /\ req[r2].cssFiles[req[r2].i] = p)
         /\ ~(/\ Stored(p)
              /\ cssContentMap'[p] # cssContentMap[p]
              /\ \E k \in TasksOf(r2, p) :
                   /\ req[r2].tasks[k].st = "awaiting"
                   /\ req'[r2].tasks[k].st = "fulfilled")]_vars

\* C8, amended: once an entry for p is stored, the entry is never removed,
\* no read of p is begun any more, every callback that runs for p returns
\* the stored content, and the entry is rewritten only by the continuation
\* of a read of p that was already waiting to be stored, whatever the disk
\* holds.
C8_StoredIsReused ==
  [][\A p \in PathU :
       Stored(p) =>
         /\ cssContentMap'[p] # Undefined
         /\ reads'[p] = reads[p]
         /\ \A r \in Requests : \A k \in TasksOf(r, p) :
              (req[r].tasks[k].st = "none" /\ req'[r].tasks[k].st # "none")
              => req'[r].tasks[k] = [st |-> "fulfilled",
                                     content |-> cssContentMap[p],
                                     cached |-> TRUE, nth |-> 0]
         /\ cssContentMap'[p] # cssContentMap[p]
            => \E r \in Requests : \E k \in TasksOf(r, p) :
                 /\ req[r].tasks[k].st = "awaiting"
                 /\ req'[r].tasks[k].st = "fulfilled"
                 /\ cssContentMap'[p] = req[r].tasks[k].content]_vars

\* a call has returned the stored content of a path whose file has changed
\* since the one read that was made of it
C8_Witness ==
  \E r \in Requests : \E k \in 1..Len(req[r].tasks) :
    LET p == req[r].cssFiles[k]
    IN /\ req[r].pc = "returned"
       /\ req[r].tasks[k].cached
       /\ Result(r)[k].content = cssContentMap[p]
       /\ disk[p] # cssContentMap[p]
       /\ reads[p] = 1

\* C9: there is no in-flight guard.  A callback that runs for a path with no
\* stored entry begins its own disk read, whatever reads of that path are
\* waiting to be stored, and every continuation of a read that found the
\* file writes the key itself.
C9_NoInFlightGuard ==
  [][\A r \in Requests :
       /\ (/\ thread = r
           /\ req[r].pc = "map"
           /\ req[r].i <= Len(req[r].cssFiles)
           /\ ~Stored(req[r].cssFiles[req[r].i])
           /\ req'[r] # req[r])
          => /\ req'[r].pc = "reading"
             /\ reads'[req[r].cssFiles[req[r].i]] = reads[req[r].cssFiles[req[r].i]] + 1
       /\ \A k \in 1..Len(req[r].tasks) :
            (req[r].tasks[k].st = "awaiting" /\ req'[r].tasks[k].st = "fulfilled")
            => /\ writes'[req[r].cssFiles[k]] = writes[req[r].cssFiles[k]] + 1
               /\ cssContentMap'[req[r].cssFiles[k]] = req[r].tasks[k].content]_vars

\* two calls have each read the same path from the disk and each stored it
C9_Witness ==
  \E p \in PathU : \E r1 \in Requests : \E r2 \in Requests \ {r1} :
    /\ reads[p] >= 2
    /\ writes[p] >= 2
    /\ \E k \in TasksOf(r1, p) :
         req[r1].tasks[k].st = "fulfilled" /\ ~req[r1].tasks[k].cached
    /\ \E k \in TasksOf(r2, p) :
         req[r2].tasks[k].st = "fulfilled" /\ ~req[r2].tasks[k].cached

\* C10: while the disk read of one request is in progress, every other
\* request that has a job waiting can still be given the thread.
C10_ReadStallsOnlyItsRequest ==
  \A r \in Requests :
    req[r].pc = "reading" =>
      \A r2 \in Requests \ {r} :
        (\E j \in 1..Len(queue) : queue[j].r = r2) => thread = 0

(***************************************************************************)
(* C11                                                                     *)
(***************************************************************************)

\* a chunk with every absent optional field set to the empty collection or
\* the empty string
WithDefaults(chunk) ==
  [has |-> AllFields,
   id |-> chunk.id,
   files |-> IF "files" \in chunk.has THEN chunk.files ELSE <<>>,
   children |-> IF "children" \in chunk.has THEN chunk.children ELSE <<>>,
   reasons |-> IF "reasons" \in chunk.has THEN chunk.reasons ELSE <<>>,
   reasonModules |-> IF "reasonModules" \in chunk.has
                     THEN chunk.reasonModules ELSE <<>>,
   reasonsStr |-> IF "reasonsStr" \in chunk.has THEN chunk.reasonsStr ELSE <<>>]

MapWithDefaults(map) ==
  [map EXCEPT !.chunks = [i \in 1..Len(map.chunks) |-> WithDefaults(map.chunks[i])]]

\* C11: an absent optional field of a chunk counts as the empty collection:
\* extractFiles returns for a map what it returns for the same map with the
\* absent fields filled in with their empty defaults, so a chunk without
\* reasonModules is selected by the numeric-id group of no route.
C11_AbsentIsEmpty ==
  pc = "done" => out = ExtractFiles(matchedRoutes, MapWithDefaults(chunksMap), ext)

(***************************************************************************)
(* C12                                                                     *)
(***************************************************************************)

\* C12: for every matched route whose webpack id is a number n, 0 included,
\* the returned list holds the files of the extension of every chunk whose
\* reasonModules contains n.
C12_NumericIncluded ==
  pc = "done" =>
    \A k \in 1..Len(matchedRoutes) : \A i \in 1..NChunks :
      (/\ "webpack" \in matchedRoutes[k].has
       /\ matchedRoutes[k].webpack.t = "number"
       /\ "reasonModules" \in ChunkAt(i).has
       /\ matchedRoutes[k].webpack \in Range(ChunkAt(i).reasonModules))
      => \A f \in Range(FilesFromChunks(<<ChunkAt(i)>>, ext)) :
           PrependForwardSlash(f) \in Range(out)

(***************************************************************************)
(* The pure functions on strings, applied to strings built from at most    *)
(* MaxPieces pieces: the canonicalization of a string webpack id           *)
(* (line 240) with the traversal it starts, and prependForwardSlash        *)
(* applied once and then to its own result.                                *)
(***************************************************************************)

MaxPieces == 4

PieceU ==
  { <<"h", "t", "t", "p">>, <<"/">>, <<".">>, <<"-">>, <<"_">>,
    <<"a">>, <<"b">>, <<"5">> }

ArgU == { Flat(ps) : ps \in SeqsUpTo(PieceU, MaxPieces) }

\* a map with the chunk 'a_b' and a chunk with no owner
PureMap ==
  [main |-> <<>>,
   chunks |-> << Chunk(AllFields, Str(<<"a", "_", "b">>), <<a_css>>, <<>>,
                       <<Other>>, <<>>, Other),
                 Chunk(AllFields, Num(<<"1">>), <<b_css>>, <<>>,
                       <<Other>>, <<>>, Other) >>]

InitPure ==
  /\ stats = NoStats
  /\ origin = "file"
  /\ chunksMap = PureMap
  /\ IdleResolver
  /\ IdleFetcher
  /\ fn = "none"
  /\ arg \in ArgU
  /\ res = <<>>

\* lines 239-244 and 247-249 for one matched route whose webpack id is the
\* string arg: the id is canonicalized and extractFiles returns the files
\* of the traversal
CanonicalizeId ==
  /\ fn = "none"
  /\ HasStringId(Route({"webpack"}, <<>>, Str(arg)))
  /\ fn' = "canonical"
  /\ res' = <<Canonical(Str(arg)).v>>
  /\ matchedRoutes' = <<Route({"webpack"}, <<>>, Str(arg))>>
  /\ ext' = CSS
  /\ out' = ExtractFiles(<<Route({"webpack"}, <<>>, Str(arg))>>, chunksMap, CSS)
  /\ UNCHANGED <<stats, origin, chunksMap, pc, routeIdx, stack, positionedFiles,
                 extractedAssets, processed, steps, fetcherVars, arg>>

\* lines 132-137 applied to arg
Normalize ==
  /\ fn = "none"
  /\ fn' = "normalize"
  /\ res' = <<PrependForwardSlash(arg)>>
  /\ UNCHANGED <<stats, origin, chunksMap, resolverVars, fetcherVars, arg>>

\* lines 132-137 applied to the path they returned
NormalizeAgain ==
  /\ fn = "normalize"
  /\ fn' = "normalize twice"
  /\ res' = Append(res, PrependForwardSlash(res[1]))
  /\ UNCHANGED <<stats, origin, chunksMap, resolverVars, fetcherVars, arg>>

NextPure ==
  \/ CanonicalizeId
  \/ Normalize
  \/ NormalizeAgain

SpecPure == InitPure /\ [][NextPure]_vars

(***************************************************************************)
(* C13                                                                     *)
(***************************************************************************)

Alphanumeric == Lower \cup Digit

\* s without its leading non-alphanumeric characters
RECURSIVE DropRun(_)
DropRun(s) ==
  IF s = <<>> THEN s
  ELSE IF s[1] \in Alphanumeric THEN s
  ELSE DropRun(Tail(s))

\* s with every maximal run of non-alphanumeric characters replaced by one
\* underscore
RECURSIVE CollapseRuns(_)
CollapseRuns(s) ==
  IF s = <<>> THEN s
  ELSE IF s[1] \in Alphanumeric THEN <<s[1]>> \o CollapseRuns(Tail(s))
  ELSE <<"_">> \o CollapseRuns(DropRun(s))

\* the canonical form as the claim words it
RunCanonical(s) == TrimUnderscores(CollapseRuns(s))

\* C13: a string webpack id is canonicalized by replacing every maximal run
\* of non-alphanumeric characters with one underscore and trimming the
\* underscores at both ends, and the traversal starts from the chunk whose
\* id is that form: an id whose form is 'a_b' yields the files of chunk 'a_b'.
C13_CanonicalRuns ==
  fn = "canonical" =>
    /\ res[1] = RunCanonical(arg)
    /\ RunCanonical(arg) = <<"a", "_", "b">>
       => PrependForwardSlash(a_css) \in Range(out)

(***************************************************************************)
(* C15                                                                     *)
(***************************************************************************)

\* C15: prependForwardSlash applied to a path it has returned returns that
\* path unchanged, for absolute URLs, for paths with a leading '/' and for
\* paths without one.
C15_Idempotent ==
  fn = "normalize twice" => res[2] = res[1]

\* a path without a leading '/' that is no URL got its '/' from the first
\* application and kept it in the second
C15_Witness ==
  /\ fn = "normalize twice"
  /\ arg # <<>>
  /\ arg[1] # "/"
  /\ ~StartsWith(arg, HTTP)
  /\ res[1] = <<"/">> \o arg
  /\ res[2] = res[1]

(***************************************************************************)
(* C14                                                                     *)
(***************************************************************************)

\* C14: with no matched route extractFiles returns the files of the
\* extension of assetsByChunkName.main followed by those of the core chunks
\* (a file listed again is kept at its first place), so the list is not
\* empty when main has a file of the extension; for the map of Scenario A
\* and '.js' it is ['/main.js'].
C14_EmptyRoutes ==
  (pc = "done" /\ matchedRoutes = <<>>) =>
    LET main == FilterExt(chunksMap.main, ext)
        core == FilesFromChunks(CurrentProjectChunks(chunksMap.chunks), ext)
    IN /\ out = Normalized(Dedupe(main \o core))
       /\ main # <<>> => out # <<>>
       /\ (chunksMap = ScenarioA /\ ext = JS)
          => out = <<PrependForwardSlash(main_js)>>

\* Scenario A resolved for '.js' with no matched route
C14_Witness ==
  /\ pc = "done"
  /\ matchedRoutes = <<>>
  /\ chunksMap = ScenarioA
  /\ ext = JS
  /\ out = << <<"/", "m", "a", "i", "n", ".", "j", "s">> >>

(***************************************************************************)
(* C16                                                                     *)
(***************************************************************************)

\* the list without its k-th element
Remove(list, k) == SubSeq(list, 1, k - 1) \o SubSeq(list, k + 1, Len(list))

\* the string id of the route, canonicalized, is the id of no chunk
NamesNoChunk(matchedRoute) ==
  /\ "webpack" \in matchedRoute.has
  /\ matchedRoute.webpack.t = "string"
  /\ \A i \in 1..NChunks :
       "id" \in ChunkAt(i).has => ChunkAt(i).id # Canonical(matchedRoute.webpack)

\* a route with neither module nor webpack, or with only a string webpack id
\* that names no chunk
Inert(matchedRoute) ==
  /\ "module" \notin matchedRoute.has
  /\ "webpack" \notin matchedRoute.has \/ NamesNoChunk(matchedRoute)

NoDuplicates(list) == \A i, j \in 1..Len(list) : i # j => list[i] # list[j]

\* C17: for every raw chunk of the statistics, the chunk of the map has as
\* reasons the truthy string userRequest values of all reasons of all its
\* modules, each once, as reasonModules the truthy moduleId values of the
\* same reasons, each once, and as reasonsStr its reasons joined with '||';
\* absent statistics give a map with no chunks and no main files.
C17_ExtractedChunks ==
  origin = "build" =>
    /\ "chunks" \in stats.has => Len(chunksMap.chunks) = Len(stats.chunks)
    /\ "chunks" \notin stats.has => chunksMap.chunks = <<>>
    /\ "assetsByChunkName" \notin stats.has => chunksMap.main = <<>>
    /\ \A i \in 1..Len(chunksMap.chunks) :
         LET raw == stats.chunks[i]
             rs == IF "modules" \in raw.has THEN Flat(raw.modules) ELSE <<>>
             chunk == chunksMap.chunks[i]
         IN /\ {"reasons", "reasonModules", "reasonsStr"} \subseteq chunk.has
            /\ Range(chunk.reasons) =
                 { rs[k].userRequest.v : k \in { n \in 1..Len(rs) :
                     rs[n].userRequest.t = "string" /\ Truthy(rs[n].userRequest) } }
            /\ NoDuplicates(chunk.reasons)
            /\ Range(chunk.reasonModules) =
                 { rs[k].moduleId : k \in { n \in 1..Len(rs) : Truthy(rs[n].moduleId) } }
            /\ NoDuplicates(chunk.reasonModules)
            /\ chunk.reasonsStr = Join(chunk.reasons, SEP)

\* a chunk with three reasons, the first two alike and the third without a
\* userRequest, has one reason and two reason modules
C17_Witness ==
  /\ origin = "build"
  /\ pc = "done"
  /\ \E i \in 1..Len(chunksMap.chunks) :
       LET rs == Flat(stats.chunks[i].modules)
       IN /\ Len(rs) = 3
          /\ rs[1] = rs[2]
          /\ rs[3].userRequest = Null
          /\ Len(chunksMap.chunks[i].reasons) = 1
          /\ Len(chunksMap.chunks[i].reasonModules) = 2
          /\ chunksMap.chunks[i].reasonsStr = chunksMap.chunks[i].reasons[1]

(***************************************************************************)
(* C18                                                                     *)
(***************************************************************************)

\* C18: the cache holds an entry for a path only when a read of that path
\* found the file, and the entry is the text one such read returned; a read
\* that fails stores nothing, so the path is read again by a later call.
C18_OnlySuccessfulReads ==
  \A p \in PathU :
    /\ Stored(p) =>
         /\ cssContentMap[p] \in ContentU
         /\ \E r \in Requests : \E k \in TasksOf(r, p) :
              /\ req[r].tasks[k].st = "fulfilled"
              /\ ~req[r].tasks[k].cached
              /\ req[r].tasks[k].content = cssContentMap[p]
    /\ ~Stored(p) => writes[p] = 0
    /\ \A r \in Requests : \A k \in TasksOf(r, p) :
         req[r].tasks[k].st \in {"rejecting", "rejected"}
         => /\ req[r].tasks[k].content = Undefined
            /\ writes[p] <= reads[p] - 1

\* one call failed on a path that had no file, and a later call read the
\* same path again, found the file and stored its text
C18_Witness ==
  \E p \in PathU : \E r1 \in Requests : \E r2 \in Requests \ {r1} :
    /\ req[r1].pc = "failed"
    /\ \E k \in TasksOf(r1, p) : req[r1].tasks[k].st = "rejected"
    /\ req[r2].pc = "returned"
    /\ \E k \in TasksOf(r2, p) :
         /\ req[r2].tasks[k].st = "fulfilled"
         /\ ~req[r2].tasks[k].cached
         /\ req[r2].tasks[k].content = cssContentMap[p]
    /\ \E k1 \in TasksOf(r1, p) : \E k2 \in TasksOf(r2, p) :
         /\ req[r1].tasks[k1].st = "rejected"
         /\ req[r2].tasks[k2].st = "fulfilled"
         /\ req[r1].tasks[k1].nth < req[r2].tasks[k2].nth
    /\ writes[p] = 1

====
